---- MODULE Spec2Model ----
(***************************************************************************)
(* Tasks API of main.py: a JSON file (data.json) holding                   *)
(* {"notes": [...], "next_id": n}, read and rewritten in full by request   *)
(* handlers that run concurrently on the server's worker threads.  The     *)
(* three mutating handlers run under the process-wide LOCK; list_tasks and *)
(* get_task take no lock.  A step of a handler is one access to the file  *)
(* or to the lock together with the work on its locals that follows, so    *)
(* that the handlers interleave where they can interleave in the program.  *)
(***************************************************************************)
EXTENDS Integers, Sequences, FiniteSets, TLC

\* ------------------------------------------------------------- bounds
NThreads == 2      \* worker threads serving requests
MaxCreates == 2    \* create_task calls in one run
MaxTime == 1       \* distinct readings of the wall clock in one run
MaxRequests == 3   \* requests the server receives in one run
MaxStored == 3     \* records of a stored Collection that is queried

Threads == 1..NThreads

\* time.time() during the run; 0 is a time before the run.
Times == 1..MaxTime
Stamps == 0..MaxTime

\* The task_id of the requests.
TaskIds == {1, 2}

\* ------------------------------------------------------------- values
\* Optional[date] of TaskIn.due_date: None or a date.
NoDate == "None"

\* TaskIn payloads that passed validation (title 1..120 characters, priority
\* 1..5).  Strings are sequences of characters.
Inputs ==
  { [title |-> <<"A", "b">>, done |-> FALSE, priority |-> 1,
     labels |-> <<>>, due_date |-> NoDate],
    [title |-> <<"b">>, done |-> TRUE, priority |-> 5,
     labels |-> << <<"c", "B">> >>, due_date |-> "2026-01-01"] }

\* task.dict(exclude_none=True): the fields of the payload whose value is not
\* None.  due_date is the only field TaskIn allows to be None.
ExcludeNone(task) ==
  IF task.due_date = NoDate
    THEN [k \in (DOMAIN task) \ {"due_date"} |-> task[k]]
    ELSE task

\* {**a, **b} of Python: the keys of both, b's value where both have the key.
DictMerge(a, b) == b @@ a

\* The record create_task builds.
NewRec(new_id, now, task) ==
  DictMerge(("id" :> new_id) @@ ("created_at" :> now), ExcludeNone(task))

\* The blob _ensure_db writes.
InitDb == [notes |-> <<>>, next_id |-> 1]

\* No Collection (a thread that has loaded nothing, a file without a blob).
NoDb == [notes |-> <<>>, next_id |-> 0]

\* ------------------------------------------------------------- the file
\* data.json is absent, or holds: nothing ("empty", just truncated by
\* open(.., "w")), the first part of a blob ("partial"), a complete blob
\* ("full", db is its content), or bytes of two writers ("garbled").
AbsentFile == [kind |-> "absent", db |-> NoDb]
EmptyFile == [kind |-> "empty", db |-> NoDb]
PartialFile == [kind |-> "partial", db |-> NoDb]
GarbledFile == [kind |-> "garbled", db |-> NoDb]
FullFile(d) == [kind |-> "full", db |-> d]

Digits(n) == IF n < 10 THEN 1 ELSE 2

\* Order of the lengths of the blobs json.dump(db, indent=2) produces: a blob
\* with more records is longer, and with the same records the one whose
\* next_id has more digits.  The blob of InitDb is the shortest.
BlobLen(d) == 100 * Len(d.notes) + Digits(d.next_id)

\* open(DATA_FILE, "w"): creates the file or truncates it to no bytes; the
\* writer's offset is 0.
OpenW(f) == EmptyFile

\* The whole blob of d written at offset 0 in one write (a blob that fits the
\* writer's buffer is written when the file is closed).  The write replaces the
\* bytes it covers and keeps what lies beyond them: over the complete blob
\* another writer put there since this writer's open, the file is d's blob
\* only when that blob is not longer.
WriteWhole(f, d) ==
  CASE f.kind = "empty" -> FullFile(d)
    [] f.kind = "full" ->
         IF BlobLen(d) >= BlobLen(f.db) THEN FullFile(d) ELSE GarbledFile
    [] OTHER -> GarbledFile

\* A blob larger than the writer's buffer reaches the file in several
\* writes.  The first one, at offset 0, is longer than the blob of InitDb.
WriteFirst(f) ==
  IF f.kind \in {"empty", "full"} THEN PartialFile ELSE GarbledFile

\* The remaining writes, at the writer's own offset: they complete the blob
\* when its first part is still what the file holds.
WriteRest(f, d) ==
  IF f.kind = "partial" THEN FullFile(d) ELSE GarbledFile

\* ------------------------------------------------------------- state
VARIABLES
  file,      \* data.json
  lock,      \* LOCK: 0 when free, else the thread holding it
  pc,        \* pc[t]: where thread t is in its handler
  op,        \* op[t]: the request thread t serves
  db,        \* db[t]: the handler's local db
  res,       \* res[t]: the handler's response
  assigned,  \* history: the ids create_task assigned, in order
  removed,   \* history: the ids whose delete_task has returned 204
  lastDb,    \* history: the Collection of the complete blob the file held
             \* last, while it holds none
  received   \* history: the number of requests received

vars == <<file, lock, pc, op, db, res, assigned, removed, lastDb, received>>

\* The payload slot of a request that carries none (or has not read it yet).
NoTask == [title |-> <<>>, done |-> FALSE, priority |-> 0,
           labels |-> <<>>, due_date |-> NoDate]

\* API_KEY, with the default of os.getenv.
API_KEY == "secret"

\* request.headers.get("X-API-Key") of a request without the header.
NoKey == "None"

\* The X-API-Key of the requests: the right one, another one, none.
Keys == {API_KEY, "wrong", NoKey}

\* A request: the handler, the task_id of its path, its TaskIn body, the q,
\* sort and done parameters of list_tasks, and its X-API-Key.  stale records
\* whether the task_id had been deleted successfully when the request came in.
NoOp == [kind |-> "none", id |-> 0, stale |-> FALSE, task |-> NoTask,
         q |-> <<>>, sort |-> "desc", done |-> {}, key |-> NoKey]
NoRes == [status |-> 0, body |-> <<>>]

Mutations == {"create", "update", "delete"}

\* The persisted Collection: the one of the complete blob the file holds or
\* held last; NoDb as long as the file never held one.
Persisted == IF file.kind = "full" THEN file.db ELSE lastDb

\* lastDb after a step that leaves f in the file.
Kept(f) == IF f.kind = "full" THEN NoDb ELSE Persisted

\* A Collection an earlier run of the server left: one record, created
\* before this run from a payload with a due_date.
LeftDb ==
  [notes |-> <<NewRec(1, 0, CHOOSE task \in Inputs : task.due_date # NoDate)>>,
   next_id |-> 2]

\* The stores a run starts from: no data.json, or the file an earlier run
\* left.
InitFiles == {AbsentFile, FullFile(InitDb), FullFile(LeftDb)}

\* Everything but the file, before the first request.
InitRest ==
  /\ lock = 0
  /\ pc = [t \in Threads |-> "idle"]
  /\ op = [t \in Threads |-> NoOp]
  /\ db = [t \in Threads |-> NoDb]
  /\ res = [t \in Threads |-> NoRes]
  /\ assigned = <<>>
  /\ removed = {}
  /\ lastDb = NoDb
  /\ received = 0

Init == file \in InitFiles /\ InitRest

\* The Collections of n records that creates at any times leave: ids 1..n in
\* the order of creation.
StoredOf(n) ==
  {[notes |-> [i \in 1..n |-> NewRec(i, c[i][1], c[i][2])], next_id |-> n + 1] :
     c \in [1..n -> Stamps \X Inputs]}

StoredDbs == UNION {StoredOf(n) : n \in 0..MaxStored}

\* ------------------------------------------------------------- helpers
Reverse(s) == [i \in 1..Len(s) |-> s[Len(s) + 1 - i]]

RemoveAt(s, i) == SubSeq(s, 1, i - 1) \o SubSeq(s, i + 1, Len(s))

\* The index of the first record of notes whose id is task_id, 0 when there is
\* none: the for loops of get_task, update_task and delete_task.
FirstIdx(notes, task_id) ==
  IF \E i \in 1..Len(notes) : notes[i]["id"] = task_id
    THEN CHOOSE i \in 1..Len(notes) :
           /\ notes[i]["id"] = task_id
           /\ \A j \in 1..(i - 1) : notes[j]["id"] # task_id
    ELSE 0

\* str.lower() on the characters of the model.
LowerChar(c) ==
  CASE c = "A" -> "a" [] c = "B" -> "b" [] c = "C" -> "c" [] OTHER -> c
Lower(s) == [i \in 1..Len(s) |-> LowerChar(s[i])]

\* a in b, for strings.
IsSubstr(a, b) ==
  \E i \in 0..(Len(b) - Len(a)) : SubSeq(b, i + 1, i + Len(a)) = a

\* Mutant of MatchesQ: q is lowered, the title and the labels are not.
MatchesQAsStored(t, q) ==
  LET ql == Lower(q)
  IN  \/ IsSubstr(ql, t["title"])
      \/ \E i \in 1..Len(t["labels"]) : IsSubstr(ql, t["labels"][i])

\* The q filter of list_tasks (applied when q is neither None nor "").
MatchesQ(t, q) ==
  LET ql == Lower(q)
  IN  \/ IsSubstr(ql, Lower(t["title"]))
      \/ \E i \in 1..Len(t["labels"]) : IsSubstr(ql, Lower(t["labels"][i]))

\* sorted(data, key=created_at): the list sort is stable.  x goes behind every
\* element whose key is not larger.
RECURSIVE InsertByKey(_, _)
InsertByKey(x, s) ==
  IF s = <<>> THEN <<x>>
  ELSE IF s[1]["created_at"] <= x["created_at"]
    THEN <<s[1]>> \o InsertByKey(x, Tail(s))
    ELSE <<x>> \o s

RECURSIVE StableSort(_)
StableSort(s) ==
  IF s = <<>> THEN <<>>
  ELSE InsertByKey(s[Len(s)], StableSort(SubSeq(s, 1, Len(s) - 1)))

\* Mutant of Sorted: the ascending sort reversed, sorted(...)[::-1].
SortedThenReversed(data, reverse) ==
  IF reverse THEN Reverse(StableSort(data)) ELSE StableSort(data)

\* sorted(data, key=..., reverse=r): with reverse the list is reversed, sorted
\* and reversed again, which keeps equal keys in their original order.
Sorted(data, reverse) ==
  IF reverse THEN Reverse(StableSort(Reverse(data))) ELSE StableSort(data)

\* Mutant of Filtered: "if done:" in place of "if done is not None:", which
\* skips the filter for done = False.
FilteredIfDone(notes, q, done) ==
  LET KeepQ(t) == MatchesQ(t, q)
      KeepDone(t) == t["done"] \in done
      byQ == IF q # <<>> THEN SelectSeq(notes, KeepQ) ELSE notes
  IN  IF done = {TRUE} THEN SelectSeq(byQ, KeepDone) ELSE byQ

\* list_tasks after load_db: q is "" for an absent q, done is the empty set
\* for an absent done and else holds the requested value.
Filtered(notes, q, done) ==
  LET KeepQ(t) == MatchesQ(t, q)
      KeepDone(t) == t["done"] \in done
      byQ == IF q # <<>> THEN SelectSeq(notes, KeepQ) ELSE notes
  IN  IF done # {} THEN SelectSeq(byQ, KeepDone) ELSE byQ

ListTasks(notes, q, sort, done) == Sorted(Filtered(notes, q, done), sort = "desc")

Min(a, b) == IF a <= b THEN a ELSE b

\* Mutant of Paginate: pages counted from 0, offset = size * page.
PaginateFromZero(data, page, size) ==
  LET total == Len(data)
      offset == size * page
  IN  [items |-> SubSeq(data, offset + 1, Min(offset + size, total)),
       total |-> total, page |-> page, size |-> size,
       pages |-> (total + size - 1) \div size]

\* paginate(data) of fastapi_pagination for the response model Page[TaskOut]:
\* page (from 1) and size are query parameters of the request; the Page holds
\* data[offset : offset + size] for offset = size * (page - 1), the length of
\* data as total, page, size, and the number of pages.
Paginate(data, page, size) ==
  LET total == Len(data)
      offset == size * (page - 1)
  IN  [items |-> SubSeq(data, offset + 1, Min(offset + size, total)),
       total |-> total, page |-> page, size |-> size,
       pages |-> (total + size - 1) \div size]

\* The page and size of a request that names neither.
DefaultPaging == <<1, 50>>

\* Mutant of CreateDb: next_id is not incremented.
CreateDbNoBump(d, now, task) ==
  [notes |-> Append(d.notes, NewRec(d.next_id, now, task)),
   next_id |-> d.next_id]

\* db after the body of create_task.
CreateDb(d, now, task) ==
  LET new_id == d.next_id
  IN  [notes |-> Append(d.notes, NewRec(new_id, now, task)),
       next_id |-> new_id + 1]

\* Mutant of UpdatedRec: the payload laid over the old record,
\* {**t, **task.dict(exclude_none=True)}.
UpdatedRecOverlay(t, task_id, task) == DictMerge(t, ExcludeNone(task))

\* The record update_task builds for the record t it found.
UpdatedRec(t, task_id, task) ==
  DictMerge(("id" :> task_id) @@ ("created_at" :> t["created_at"]),
            ExcludeNone(task))

\* db after update_task replaced the record at index i.
UpdateDb(d, i, task_id, task) ==
  [d EXCEPT !.notes[i] = UpdatedRec(d.notes[i], task_id, task)]

\* Mutant of DeleteDb: pop() without the index, which takes the last record.
DeleteDbLast(d, i) == [d EXCEPT !.notes = SubSeq(d.notes, 1, Len(d.notes) - 1)]

\* db after delete_task popped the record at index i.
DeleteDb(d, i) == [d EXCEPT !.notes = RemoveAt(d.notes, i)]

Queries == {<<>>, <<"B">>, <<"a", "b">>, <<"C">>}
Sorts == {"desc", "asc", "up"}
DoneFilters == {{}, {TRUE}, {FALSE}}

\* <<page, size>> of the requests.
Pagings == {DefaultPaging, <<1, 2>>, <<2, 2>>, <<3, 2>>}

\* ------------------------------------------------------------- requests
\* create_task calls not yet past their body.
PendingCreates ==
  Cardinality({t \in Threads :
                 op[t].kind = "create" /\ pc[t] \in
                   {"guard", "acquire", "load", "ens_open", "ens_write", "read"}})

\* A request with the right X-API-Key comes in, passes api_key_guard, and the
\* first idle worker thread takes it (the worker threads are interchangeable).
Invoke(t, kind, id) ==
  /\ pc[t] = "idle"
  /\ \A u \in Threads : u < t => pc[u] # "idle"
  /\ received < MaxRequests
  /\ received' = received + 1
  /\ op' = [op EXCEPT ![t] = [NoOp EXCEPT !.kind = kind, !.id = id,
                                           !.stale = id \in removed,
                                           !.key = API_KEY]]
  /\ pc' = [pc EXCEPT ![t] = IF kind \in Mutations THEN "acquire" ELSE "load"]
  /\ UNCHANGED <<file, lock, db, res, assigned, removed, lastDb>>

InvokeCreate(t) ==
  /\ Len(assigned) + PendingCreates < MaxCreates
  /\ Invoke(t, "create", 0)

InvokeUpdate(t) == \E id \in TaskIds : Invoke(t, "update", id)
InvokeDelete(t) == \E id \in TaskIds : Invoke(t, "delete", id)
InvokeGet(t) == \E id \in TaskIds : Invoke(t, "get", id)
InvokeList(t) == Invoke(t, "list", 0)

\* Mutant of Acquire: LOCK.acquire(blocking=False) with its result ignored,
\* the handler goes on whether or not it got the lock.
AcquireTry(t) ==
  /\ pc[t] = "acquire"
  /\ lock' = IF lock = 0 THEN t ELSE lock
  /\ pc' = [pc EXCEPT ![t] = "load"]
  /\ UNCHANGED <<file, op, db, res, assigned, removed, lastDb, received>>

\* Mutant of Acquire: the section is entered without waiting for the lock.
AcquireNoWait(t) ==
  /\ pc[t] = "acquire"
  /\ lock' = t
  /\ pc' = [pc EXCEPT ![t] = "load"]
  /\ UNCHANGED <<file, op, db, res, assigned, removed, lastDb, received>>

\* with LOCK: entered when the lock is free.
Acquire(t) ==
  /\ pc[t] = "acquire"
  /\ lock = 0
  /\ lock' = t
  /\ pc' = [pc EXCEPT ![t] = "load"]
  /\ UNCHANGED <<file, op, db, res, assigned, removed, lastDb, received>>

\* ------------------------------------------------------------- load_db
\* Where a handler is inside load_db: at the os.path.exists of _ensure_db
\* ("load"), or behind the write of _ensure_db ("read").  Nothing removes
\* data.json, so a handler that found it existing reads what the file holds
\* when it opens it: the check and the read of an existing file are one step.
LoadPcs == {"load", "read"}

\* load_db returns to thread t: the file exists and holds a complete blob.
Loads(t) == pc[t] \in LoadPcs /\ file.kind = "full"

\* _ensure_db: os.path.exists(DATA_FILE) is false.
EnsureCheck(t) ==
  /\ pc[t] = "load"
  /\ file.kind = "absent"
  /\ pc' = [pc EXCEPT ![t] = "ens_open"]
  /\ UNCHANGED <<file, lock, op, db, res, assigned, removed, lastDb, received>>

\* _ensure_db: open(DATA_FILE, "w").
EnsureOpen(t) ==
  /\ pc[t] = "ens_open"
  /\ file' = OpenW(file)
  /\ pc' = [pc EXCEPT ![t] = "ens_write"]
  /\ lastDb' = Kept(file')
  /\ UNCHANGED <<lock, op, db, res, assigned, removed, received>>

\* _ensure_db: json.dump of the empty Collection, written when the file closes.
EnsureWrite(t) ==
  /\ pc[t] = "ens_write"
  /\ file' = WriteWhole(file, InitDb)
  /\ lastDb' = Kept(file')
  /\ pc' = [pc EXCEPT ![t] = "read"]
  /\ UNCHANGED <<lock, op, db, res, assigned, removed, received>>

\* load_db: json.load raises on a file that holds no complete blob; the
\* handler ends with the server's 500 response.
LoadFail(t) ==
  /\ pc[t] \in LoadPcs
  /\ file.kind \notin {"full", "absent"}
  /\ res' = [res EXCEPT ![t] = [status |-> 500, body |-> <<>>]]
  /\ pc' = [pc EXCEPT ![t] = "ret"]
  /\ UNCHANGED <<file, lock, op, db, assigned, removed, lastDb, received>>

\* ------------------------------------------------------------- handlers
\* Each handler step below is load_db returning and the handler's work on its
\* local db up to its next access to the file.

\* list_tasks with q, sort and done taken from Qs, Ss and Ds.
ListWith(t, Qs, Ss, Ds, Ps) ==
  /\ Loads(t) /\ op[t].kind = "list"
  /\ db' = [db EXCEPT ![t] = file.db]
  /\ \E q \in Qs, sort \in Ss, done \in Ds, ps \in Ps :
       LET page == Paginate(ListTasks(file.db.notes, q, sort, done), ps[1], ps[2])
       IN  /\ op' = [op EXCEPT ![t].q = q, ![t].sort = sort, ![t].done = done]
           /\ res' = [res EXCEPT ![t] =
                        [status |-> 200, body |-> page.items,
                         total |-> page.total, page |-> page.page,
                         size |-> page.size, pages |-> page.pages]]
  /\ pc' = [pc EXCEPT ![t] = "ret"]
  /\ UNCHANGED <<file, lock, assigned, removed, lastDb, received>>

\* list_tasks with the defaults of its signature.
ListBody(t) == ListWith(t, {<<>>}, {"desc"}, {{}}, {DefaultPaging})

\* list_tasks with any parameters.
ListAny(t) == ListWith(t, Queries, Sorts, DoneFilters, Pagings)

GetBody(t) ==
  /\ Loads(t) /\ op[t].kind = "get"
  /\ db' = [db EXCEPT ![t] = file.db]
  /\ LET i == FirstIdx(file.db.notes, op[t].id)
     IN  res' = [res EXCEPT ![t] =
                   IF i # 0 THEN [status |-> 200, body |-> <<file.db.notes[i]>>]
                            ELSE [status |-> 404, body |-> <<>>]]
  /\ pc' = [pc EXCEPT ![t] = "ret"]
  /\ UNCHANGED <<file, lock, op, assigned, removed, lastDb, received>>

CreateBody(t) ==
  /\ Loads(t) /\ op[t].kind = "create"
  /\ \E task \in Inputs, now \in Times :
       /\ op' = [op EXCEPT ![t].task = task]
       /\ db' = [db EXCEPT ![t] = CreateDb(file.db, now, task)]
       /\ res' = [res EXCEPT ![t] =
                    [status |-> 201, body |-> <<NewRec(file.db.next_id, now, task)>>]]
  /\ assigned' = Append(assigned, file.db.next_id)
  /\ pc' = [pc EXCEPT ![t] = "save_open"]
  /\ UNCHANGED <<file, lock, removed, lastDb, received>>

UpdateBody(t) ==
  /\ Loads(t) /\ op[t].kind = "update"
  /\ LET i == FirstIdx(file.db.notes, op[t].id)
     IN  IF i # 0
           THEN \E task \in Inputs :
                  /\ op' = [op EXCEPT ![t].task = task]
                  /\ db' = [db EXCEPT ![t] = UpdateDb(file.db, i, op[t].id, task)]
                  /\ res' = [res EXCEPT ![t] =
                               [status |-> 200,
                                body |-> <<UpdatedRec(file.db.notes[i], op[t].id, task)>>]]
                  /\ pc' = [pc EXCEPT ![t] = "save_open"]
           ELSE /\ db' = [db EXCEPT ![t] = file.db]
                /\ res' = [res EXCEPT ![t] = [status |-> 404, body |-> <<>>]]
                /\ pc' = [pc EXCEPT ![t] = "ret"]
                /\ UNCHANGED op
  /\ UNCHANGED <<file, lock, assigned, removed, lastDb, received>>

DeleteBody(t) ==
  /\ Loads(t) /\ op[t].kind = "delete"
  /\ LET i == FirstIdx(file.db.notes, op[t].id)
     IN  IF i # 0
           THEN /\ db' = [db EXCEPT ![t] = DeleteDb(file.db, i)]
                /\ res' = [res EXCEPT ![t] = [status |-> 204, body |-> <<>>]]
                /\ pc' = [pc EXCEPT ![t] = "save_open"]
           ELSE /\ db' = [db EXCEPT ![t] = file.db]
                /\ res' = [res EXCEPT ![t] = [status |-> 404, body |-> <<>>]]
                /\ pc' = [pc EXCEPT ![t] = "ret"]
  /\ UNCHANGED <<file, lock, op, assigned, removed, lastDb, received>>

\* ------------------------------------------------------------- save_db
\* save_db: open(DATA_FILE, "w").
SaveOpen(t) ==
  /\ pc[t] = "save_open"
  /\ file' = OpenW(file)
  /\ pc' = [pc EXCEPT ![t] = "save_write"]
  /\ lastDb' = Kept(file')
  /\ UNCHANGED <<lock, op, db, res, assigned, removed, received>>

\* save_db: the blob reaches the file in one write.
SaveWrite(t) ==
  /\ pc[t] = "save_write"
  /\ file' = WriteWhole(file, db[t])
  /\ lastDb' = Kept(file')
  /\ pc' = [pc EXCEPT ![t] = "ret"]
  /\ UNCHANGED <<lock, op, db, res, assigned, removed, received>>

\* save_db: the first write of a blob that does not fit the buffer (a blob
\* without records always fits).
SaveWriteFirst(t) ==
  /\ pc[t] = "save_write"
  /\ db[t].notes # <<>>
  /\ file' = WriteFirst(file)
  /\ pc' = [pc EXCEPT ![t] = "save_rest"]
  /\ lastDb' = Kept(file')
  /\ UNCHANGED <<lock, op, db, res, assigned, removed, received>>

\* save_db: the rest of the blob, and the close.
SaveWriteRest(t) ==
  /\ pc[t] = "save_rest"
  /\ file' = WriteRest(file, db[t])
  /\ lastDb' = Kept(file')
  /\ pc' = [pc EXCEPT ![t] = "ret"]
  /\ UNCHANGED <<lock, op, db, res, assigned, removed, received>>

\* Mutant of Return: LOCK.acquire() and LOCK.release() around the body in place
\* of "with LOCK", so that a handler that raises keeps the lock.
ReturnKeepsLockOnError(t) ==
  /\ pc[t] = "ret"
  /\ lock' = IF lock = t /\ res[t].status < 400 THEN 0 ELSE lock
  /\ removed' = IF op[t].kind = "delete" /\ res[t].status = 204
                  THEN removed \cup {op[t].id} ELSE removed
  /\ pc' = [pc EXCEPT ![t] = "idle"]
  /\ op' = [op EXCEPT ![t] = NoOp]
  /\ db' = [db EXCEPT ![t] = NoDb]
  /\ res' = [res EXCEPT ![t] = NoRes]
  /\ UNCHANGED <<file, assigned, lastDb, received>>

\* The handler returns or raises: the with block releases the lock when this
\* thread holds it, and the response goes out.
Return(t) ==
  /\ pc[t] = "ret"
  /\ lock' = IF lock = t THEN 0 ELSE lock
  /\ removed' = IF op[t].kind = "delete" /\ res[t].status = 204
                  THEN removed \cup {op[t].id} ELSE removed
  /\ pc' = [pc EXCEPT ![t] = "idle"]
  /\ op' = [op EXCEPT ![t] = NoOp]
  /\ db' = [db EXCEPT ![t] = NoDb]
  /\ res' = [res EXCEPT ![t] = NoRes]
  /\ UNCHANGED <<file, assigned, lastDb, received>>

Next ==
  \E t \in Threads :
    \/ InvokeCreate(t)
    \/ InvokeUpdate(t)
    \/ InvokeDelete(t)
    \/ InvokeGet(t)
    \/ InvokeList(t)
    \/ Acquire(t)
    \/ EnsureCheck(t)
    \/ EnsureOpen(t)
    \/ EnsureWrite(t)
    \/ LoadFail(t)
    \/ ListBody(t)
    \/ GetBody(t)
    \/ CreateBody(t)
    \/ UpdateBody(t)
    \/ DeleteBody(t)
    \/ SaveOpen(t)
    \/ SaveWrite(t)
    \/ SaveWriteFirst(t)
    \/ SaveWriteRest(t)
    \/ Return(t)

\* The server under concurrent requests of every kind.
Spec == Init /\ [][Next]_vars

\* The steps of thread t in a request it has received.
Progress(t) ==
  \/ Acquire(t)
  \/ EnsureCheck(t)
  \/ EnsureOpen(t)
  \/ EnsureWrite(t)
  \/ LoadFail(t)
  \/ ListBody(t)
  \/ GetBody(t)
  \/ CreateBody(t)
  \/ UpdateBody(t)
  \/ DeleteBody(t)
  \/ SaveOpen(t)
  \/ SaveWrite(t)
  \/ SaveWriteFirst(t)
  \/ SaveWriteRest(t)
  \/ Return(t)

\* The server under a fair scheduler: a thread that can take a step, and stays
\* able to, takes one eventually.  A run has finitely many requests, so a
\* thread waiting for LOCK is not overtaken forever.
FairSpec == Spec /\ \A t \in Threads : WF_vars(Progress(t))

\* ------------------------------------------------------------- api_key_guard
Slash == <<"/">>
TasksPath == Slash \o <<"t", "a", "s", "k", "s">>
HealthPath == Slash \o <<"h", "e", "a", "l", "t", "h">>

\* request.url.path of the routes: /tasks, /tasks/{task_id}, /health.
PathOf(kind, id) ==
  CASE kind \in {"list", "create"} -> TasksPath
    [] kind \in {"get", "update", "delete"} -> TasksPath \o Slash \o <<ToString(id)>>
    [] OTHER -> HealthPath

\* s.startswith(p)
StartsWith(s, p) == Len(s) >= Len(p) /\ SubSeq(s, 1, Len(p)) = p

\* Mutant of Guarded: the path compared with "/tasks" instead of its start.
GuardedExact(path) == path = TasksPath

\* The paths api_key_guard asks a key for.
Guarded(path) == StartsWith(path, TasksPath)

Routes == {"create", "update", "delete", "get", "list", "health"}

\* A request of any route with any X-API-Key reaches the middleware.
Arrive(t) ==
  /\ pc[t] = "idle"
  /\ \A u \in Threads : u < t => pc[u] # "idle"
  /\ received < MaxRequests
  /\ received' = received + 1
  /\ \E kind \in Routes, key \in Keys :
       \E id \in IF kind \in {"get", "update", "delete"} THEN TaskIds ELSE {0} :
         /\ kind = "create" => Len(assigned) + PendingCreates < MaxCreates
         /\ op' = [op EXCEPT ![t] = [NoOp EXCEPT !.kind = kind, !.id = id,
                                                  !.stale = id \in removed,
                                                  !.key = key]]
  /\ pc' = [pc EXCEPT ![t] = "guard"]
  /\ UNCHANGED <<file, lock, db, res, assigned, removed, lastDb>>

\* api_key_guard answers 401 itself.
GuardReject(t) ==
  /\ pc[t] = "guard"
  /\ Guarded(PathOf(op[t].kind, op[t].id))
  /\ op[t].key # API_KEY
  /\ res' = [res EXCEPT ![t] = [status |-> 401, body |-> <<>>]]
  /\ pc' = [pc EXCEPT ![t] = "ret"]
  /\ UNCHANGED <<file, lock, op, db, assigned, removed, lastDb, received>>

\* api_key_guard hands the request on: call_next(request) runs the handler.
GuardPass(t) ==
  /\ pc[t] = "guard"
  /\ ~(Guarded(PathOf(op[t].kind, op[t].id)) /\ op[t].key # API_KEY)
  /\ pc' = [pc EXCEPT ![t] =
               CASE op[t].kind \in Mutations -> "acquire"
                 [] op[t].kind = "health" -> "health"
                 [] OTHER -> "load"]
  /\ UNCHANGED <<file, lock, op, db, res, assigned, removed, lastDb, received>>

\* health
Health(t) ==
  /\ pc[t] = "health"
  /\ res' = [res EXCEPT ![t] = [status |-> 200, body |-> <<"ok">>]]
  /\ pc' = [pc EXCEPT ![t] = "ret"]
  /\ UNCHANGED <<file, lock, op, db, assigned, removed, lastDb, received>>

\* The server behind its middleware: one worker thread, requests of every
\* route with and without the right key.
GuardNext ==
  \/ Arrive(1)
  \/ GuardReject(1)
  \/ GuardPass(1)
  \/ Health(1)
  \/ Acquire(1)
  \/ EnsureCheck(1)
  \/ EnsureOpen(1)
  \/ EnsureWrite(1)
  \/ ListBody(1)
  \/ GetBody(1)
  \/ CreateBody(1)
  \/ UpdateBody(1)
  \/ DeleteBody(1)
  \/ SaveOpen(1)
  \/ SaveWrite(1)
  \/ SaveWriteFirst(1)
  \/ SaveWriteRest(1)
  \/ Return(1)

GuardSpec == Init /\ [][GuardNext]_vars

\* The mutating handlers alone: create_task, update_task and delete_task
\* called concurrently, no list_tasks and no get_task.
MutNext ==
  \E t \in Threads :
    \/ InvokeCreate(t)
    \/ InvokeUpdate(t)
    \/ InvokeDelete(t)
    \/ Acquire(t)
    \/ EnsureCheck(t)
    \/ EnsureOpen(t)
    \/ EnsureWrite(t)
    \/ CreateBody(t)
    \/ UpdateBody(t)
    \/ DeleteBody(t)
    \/ SaveOpen(t)
    \/ SaveWrite(t)
    \/ SaveWriteFirst(t)
    \/ SaveWriteRest(t)
    \/ Return(t)

MutSpec == Init /\ [][MutNext]_vars

\* list_tasks alone: one worker thread answering list requests with any
\* parameters over any stored Collection.
QueryInit ==
  /\ file \in {AbsentFile} \cup {FullFile(d) : d \in StoredDbs}
  /\ InitRest

QueryNext ==
  \/ InvokeList(1)
  \/ EnsureCheck(1)
  \/ EnsureOpen(1)
  \/ EnsureWrite(1)
  \/ ListAny(1)
  \/ Return(1)

QuerySpec == QueryInit /\ [][QueryNext]_vars

\* ------------------------------------------------------------- properties
Readers == {"list", "get"}

\* The load-modify-save section of a mutating handler: from the lock taken to
\* the with block left.
SectionPcs == {"load", "ens_open", "ens_write", "read",
               "save_open", "save_write", "save_rest", "ret"}
InSection(t) == op[t].kind \in Mutations /\ pc[t] \in SectionPcs

\* Thread t takes a step.
Steps(t) == pc'[t] # pc[t]

\* The ids of a record sequence are strictly increasing.
IdsIncrease(notes) ==
  \A i, j \in 1..Len(notes) : i < j => notes[i]["id"] < notes[j]["id"]

\* C1: the ids create_task assigns, in the order of assignment, are strictly
\* increasing, so that no id is assigned twice.
C1_IdsStrictlyIncreasing ==
  \A i, j \in 1..Len(assigned) : i < j => assigned[i] < assigned[j]

\* C2: whenever data.json holds a complete blob, the ids of its records are
\* pairwise distinct and each is smaller than its next_id.
C2_IdsUniqueBelowNext ==
  file.kind = "full" =>
    LET notes == file.db.notes
    IN  /\ \A i, j \in 1..Len(notes) : i # j => notes[i]["id"] # notes[j]["id"]
        /\ \A i \in 1..Len(notes) : notes[i]["id"] < file.db.next_id

\* C2 witness: a persisted Collection whose first id is gone and whose second
\* record remains.
C2_Witness ==
  /\ file.kind = "full"
  /\ Len(file.db.notes) = 1
  /\ file.db.notes[1]["id"] = 2
  /\ file.db.next_id = 3

\* C3: a load that list_tasks or get_task performs while a mutating handler
\* is inside save_db (between its open and its close) reads a complete blob.
C3_ReaderSeesCompleteBlob ==
  [][\A t \in Threads :
       ( /\ op[t].kind \in Readers
         /\ pc[t] \in LoadPcs
         /\ Steps(t)
         /\ \E m \in Threads : op[m].kind \in Mutations
                               /\ pc[m] \in {"save_write", "save_rest"} )
       => res'[t].status # 500]_vars

\* C4: at most one mutating handler is inside its load-modify-save section.
C4_OneMutationInSection ==
  Cardinality({t \in Threads : InSection(t)}) <= 1

\* C4 witness: a mutation inside save_db while another one waits for the lock.
C4_Witness ==
  \E t, u \in Threads : /\ pc[t] = "save_write" /\ InSection(t)
                        /\ pc[u] = "acquire"

TaskFields == {"title", "done", "priority", "labels"}

C6_RemovedIdNotFound ==
  \A t \in Threads :
    (pc[t] = "ret" /\ op[t].stale /\ op[t].kind \in {"get", "update", "delete"})
      => res[t].status = 404

\* C7: no step makes the next_id of the persisted Collection smaller.
C7_NextIdOnlyIncreases ==
  [][Persisted'.next_id >= Persisted.next_id]_vars

\* C8: a step of list_tasks or get_task leaves the record sequence and the
\* next_id of the persisted Collection as they are (the step that creates the
\* first blob of a store that never had one aside).
C8_QueryLeavesCollection ==
  [][\A t \in Threads :
       (op[t].kind \in Readers /\ Steps(t) /\ Persisted # NoDb)
         => Persisted' = Persisted]_vars

\* C9: create_task appends its record, update_task keeps every record at its
\* position, delete_task takes one record out and keeps the order of the
\* others; and the records of a persisted Collection stand in the order of
\* their creation, which within one Collection is the order of their ids.
C9_InsertionOrder ==
  /\ [](file.kind = "full" => IdsIncrease(file.db.notes))
  /\ [][\A t \in Threads :
          (pc[t] \in LoadPcs /\ pc'[t] = "save_open") =>
            LET old == file.db.notes
                new == db'[t].notes
            IN  CASE op[t].kind = "create" ->
                       /\ Len(new) = Len(old) + 1
                       /\ \A k \in 1..Len(old) : new[k] = old[k]
                       /\ new[Len(new)] = res'[t].body[1]
                  [] op[t].kind = "update" ->
                       /\ Len(new) = Len(old)
                       /\ \A k \in 1..Len(old) :
                            /\ new[k]["id"] = old[k]["id"]
                            /\ new[k]["created_at"] = old[k]["created_at"]
                  [] op[t].kind = "delete" ->
                       /\ Len(new) = Len(old) - 1
                       /\ \E i \in 1..Len(old) :
                            /\ old[i]["id"] = op[t].id
                            /\ \A k \in 1..Len(new) :
                                 new[k] = IF k < i THEN old[k] ELSE old[k + 1]
                  [] OTHER -> FALSE]_vars

\* C9 witness: delete_task took the first of two records out and the second
\* one is what the file holds.
C9_Witness ==
  \E t \in Threads :
    /\ op[t].kind = "delete" /\ op[t].id = 1 /\ pc[t] = "ret"
    /\ res[t].status = 204
    /\ file.kind = "full"
    /\ Len(file.db.notes) = 1
    /\ file.db.notes[1]["id"] = 2

\* The injective maps of 1..n into 1..n.
Perms(n) ==
  {p \in [1..n -> 1..n] : \A i, j \in 1..n : i # j => p[i] # p[j]}

\* C10: the body of a list_tasks response is a page of the filtered records
\* reordered by created_at, descending for sort = "desc" and ascending for
\* every other sort, records of equal created_at in the order the Collection
\* has them.
C10_SortedStable ==
  \A t \in Threads :
    (op[t].kind = "list" /\ pc[t] = "ret" /\ res[t].status = 200) =>
      LET src == Filtered(db[t].notes, op[t].q, op[t].done)
          out == res[t].body
          n == Len(src)
          first == res[t].size * (res[t].page - 1)
      IN  \E p \in Perms(n) :
            /\ \A i \in 1..Len(out) :
                 first + i <= n /\ out[i] = src[p[first + i]]
            /\ first = 0 /\ res[t].size >= n => Len(out) = n
            /\ \A i, j \in 1..n :
                 i < j =>
                   /\ IF op[t].sort = "desc"
                        THEN src[p[i]]["created_at"] >= src[p[j]]["created_at"]
                        ELSE src[p[i]]["created_at"] <= src[p[j]]["created_at"]
                   /\ src[p[i]]["created_at"] = src[p[j]]["created_at"]
                        => p[i] < p[j]

\* C10 witness: a descending list of three records, two of them created at
\* the same time and later than the third, which the Collection holds first.
C10_Witness ==
  \E t \in Threads :
    /\ op[t].kind = "list" /\ pc[t] = "ret" /\ res[t].status = 200
    /\ op[t].sort = "desc"
    /\ Len(res[t].body) = 3
    /\ res[t].body[1]["created_at"] = res[t].body[2]["created_at"]
    /\ res[t].body[2]["created_at"] > res[t].body[3]["created_at"]
    /\ db[t].notes[1] = res[t].body[3]

\* A list_tasks response that was handed out by thread t.
Listed(t) == op[t].kind = "list" /\ pc[t] = "ret" /\ res[t].status = 200

InBody(t, r) == \E j \in 1..Len(res[t].body) : res[t].body[j] = r

\* The text q occurs in s when letter case is ignored.
OccursIn(q, s) ==
  \E k \in 0..(Len(s) - Len(q)) :
    \A i \in 1..Len(q) : LowerChar(s[k + i]) = LowerChar(q[i])

TextKeeps(r, q) ==
  \/ OccursIn(q, r["title"])
  \/ \E l \in 1..Len(r["labels"]) : OccursIn(q, r["labels"][l])

DoneKeeps(r, done) == done = {} \/ r["done"] \in done

\* C11: with a filter text, list_tasks keeps exactly the records whose title or
\* one of whose labels contains the text, letter case ignored on both sides:
\* every record of the page is such a record, the total counts them (among the
\* records the done filter lets through), and a page that holds the total
\* holds each of them.
C11_TextFilter ==
  \A t \in Threads :
    (Listed(t) /\ op[t].q # <<>>) =>
      LET notes == db[t].notes
          kept == {i \in 1..Len(notes) :
                     TextKeeps(notes[i], op[t].q) /\ DoneKeeps(notes[i], op[t].done)}
      IN  /\ \A j \in 1..Len(res[t].body) : TextKeeps(res[t].body[j], op[t].q)
          /\ res[t].total = Cardinality(kept)
          /\ Len(res[t].body) = res[t].total =>
                \A i \in 1..Len(notes) : InBody(t, notes[i]) <=> i \in kept

\* C11 witness: the text "C" keeps the record labelled "cB" and drops the
\* record titled "Ab", which has no label.
C11_Witness ==
  \E t \in Threads :
    /\ Listed(t) /\ op[t].q = <<"C">> /\ op[t].done = {}
    /\ Len(db[t].notes) = 2
    /\ db[t].notes[1]["title"] = <<"A", "b">>
    /\ res[t].body = <<db[t].notes[2]>>
    /\ db[t].notes[2]["labels"] = << <<"c", "B">> >>

\* C12: with a done parameter, list_tasks keeps exactly the records whose done
\* is the requested value; without one, no record is dropped for its done.
C12_DoneFilter ==
  \A t \in Threads :
    Listed(t) =>
      LET notes == db[t].notes
          byText == {i \in 1..Len(notes) :
                       op[t].q = <<>> \/ TextKeeps(notes[i], op[t].q)}
          wanted == {i \in byText : notes[i]["done"] \in op[t].done}
      IN  IF op[t].done = {}
            THEN /\ res[t].total = Cardinality(byText)
                 /\ Len(res[t].body) = res[t].total =>
                       \A i \in byText : InBody(t, notes[i])
            ELSE /\ \A j \in 1..Len(res[t].body) :
                      res[t].body[j]["done"] \in op[t].done
                 /\ res[t].total = Cardinality(wanted)
                 /\ Len(res[t].body) = res[t].total =>
                       \A i \in 1..Len(notes) :
                         InBody(t, notes[i]) <=> i \in wanted

\* C12 witness: done = false keeps the one record of three that is not done.
C12_Witness ==
  \E t \in Threads :
    /\ Listed(t) /\ op[t].done = {FALSE} /\ op[t].q = <<>>
    /\ Len(db[t].notes) = 3
    /\ db[t].notes[1]["done"] /\ db[t].notes[3]["done"]
    /\ res[t].body = <<db[t].notes[2]>>

\* The page of a list_tasks response against the filtered and sorted records.
PageOfListed(t) ==
  LET data == ListTasks(db[t].notes, op[t].q, op[t].sort, op[t].done)
      offset == res[t].size * (res[t].page - 1)
      limit == res[t].size
      room == IF offset >= Len(data) THEN 0 ELSE Len(data) - offset
  IN  /\ res[t].total = Len(data)
      /\ Len(res[t].body) = Min(limit, room)
      /\ \A i \in 1..Len(res[t].body) : res[t].body[i] = data[offset + i]

InEnsure(t) == pc[t] \in {"ens_open", "ens_write"}

\* C14: _ensure_db writes the blob of InitDb into the file it created, and
\* whichever thread runs it, and however often, it never changes a persisted
\* Collection.
C14_EnsureIdempotent ==
  /\ [][\A t \in Threads :
          (pc[t] = "ens_write" /\ Steps(t) /\ file.kind = "empty")
            => file' = FullFile(InitDb)]_vars
  /\ [][\A t \in Threads :
          (InEnsure(t) /\ Steps(t) /\ Persisted # NoDb)
            => Persisted' = Persisted]_vars

\* The ids of the records of notes.
IdsOf(notes) == {notes[i]["id"] : i \in 1..Len(notes)}

\* A create_task that assigned id and has not returned yet.
Creating(id) ==
  \E t \in Threads :
    /\ op[t].kind = "create"
    /\ pc[t] \in {"save_open", "save_write", "save_rest", "ret"}
    /\ res[t].body[1]["id"] = id

\* A delete_task that found the record id, or one that has returned 204.
Removing(id) ==
  \/ id \in removed
  \/ \E t \in Threads :
       /\ op[t].kind = "delete" /\ op[t].id = id
       /\ pc[t] \in {"save_open", "save_write", "save_rest", "ret"}
       /\ res[t].status = 204

\* C15: a record a create_task has returned is in the persisted Collection
\* as long as no delete_task of its id has found it.
C15_CreatedStays ==
  \A k \in 1..Len(assigned) :
    (~Creating(assigned[k]) /\ ~Removing(assigned[k]))
      => assigned[k] \in IdsOf(Persisted.notes)

NeverStored(id) ==
  /\ \A k \in 1..Len(assigned) : assigned[k] # id
  /\ id \notin IdsOf(LeftDb.notes)

\* C17: update_task and delete_task for an id no record has answer 404, and
\* no step of theirs changes the persisted Collection.
C17_MissingIdNotFound ==
  /\ [](\A t \in Threads :
          (op[t].kind \in {"update", "delete"} /\ NeverStored(op[t].id)
             /\ pc[t] = "ret")
            => res[t].status = 404)
  /\ [][\A t \in Threads :
          (op[t].kind \in {"update", "delete"} /\ NeverStored(op[t].id)
             /\ Steps(t) /\ Persisted # NoDb)
            => Persisted' = Persisted]_vars

\* C18: LOCK is held only by a thread inside a mutation; a mutation that ends
\* (with its result, with 404, or with the error of a failed load) leaves the
\* lock free; and under a fair scheduler every mutation that was invoked gets
\* the lock and runs to its end.
C18_LockReleased ==
  /\ [](\A t \in Threads : lock = t => InSection(t))
  /\ [](lock \in {0} \cup Threads)
  /\ [][\A t \in Threads :
          (pc[t] = "ret" /\ op[t].kind \in Mutations /\ Steps(t)) => lock' = 0]_vars
  /\ \A t \in Threads : (pc[t] = "acquire") ~> (lock = t)
  /\ \A t \in Threads : (op[t].kind \in Mutations) ~> (pc[t] = "idle")

\* C18 witness: a mutation whose load failed is about to leave with the lock
\* still held, and another mutation waits for it.
C18_Witness ==
  \E t, u \in Threads :
    /\ op[t].kind \in Mutations /\ pc[t] = "ret" /\ res[t].status = 500
    /\ lock = t
    /\ pc[u] = "acquire"

\* A request for a path under /tasks that does not carry API_KEY.
Keyless(t) ==
  /\ op[t].kind # "none"
  /\ StartsWith(PathOf(op[t].kind, op[t].id), TasksPath)
  /\ op[t].key # API_KEY

\* C19: a request for a path that starts with /tasks and has no or a wrong
\* X-API-Key is answered 401 and never enters a handler: it loads no
\* Collection, returns no record, takes no lock and changes nothing that is
\* persisted; a request inside a handler of /tasks carries API_KEY.
C19_KeyGuard ==
  /\ [](\A t \in Threads :
          Keyless(t) =>
            /\ pc[t] \in {"guard", "ret"}
            /\ pc[t] = "ret" => res[t] = [status |-> 401, body |-> <<>>]
            /\ db[t] = NoDb /\ lock # t)
  /\ [][\A t \in Threads :
          (Keyless(t) /\ Steps(t)) =>
            file' = file /\ assigned' = assigned /\ removed' = removed]_vars
  /\ [](\A t \in Threads :
          (op[t].kind \in Routes \ {"health"} /\ pc[t] \notin {"idle", "guard"}
             /\ res[t].status # 401)
            => op[t].key = API_KEY)

\* C19 witness: DELETE /tasks/1 with a wrong key is answered 401 while the
\* Collection holds record 1.
C19_Witness ==
  \E t \in Threads :
    /\ op[t].kind = "delete" /\ op[t].key = "wrong"
    /\ pc[t] = "ret" /\ res[t].status = 401
    /\ file.kind = "full" /\ op[t].id \in IdsOf(file.db.notes)

====
